---------------------------- MODULE Spec2Model ----------------------------
(***************************************************************************)
(* State-machine model of the photo sharing application in src/app.py:     *)
(* the relational tables (User, Photo, Like, Save, Comment), the object    *)
(* store, the login session of every client, and one action per request    *)
(* handler.  The like/save toggles are split at the point where another    *)
(* worker can run: after the lookup of the existing row and before the     *)
(* insert/delete and commit.                                               *)
(***************************************************************************)
EXTENDS Integers, Sequences, FiniteSets, TLC

(* ------------------------------ bounds -------------------------------- *)

\* Rows the Photo table may hold.
MaxPhotos == 1

\* Rows the Comment table may hold.
MaxComments == 1

\* Browser sessions (clients) issuing requests: 1..NumClients.
NumClients == 2

\* Values of the wall clock (second resolution) used in object names.
MaxClock == 2

(* --------------------------- input domains ---------------------------- *)

Clients == 1..NumClients

\* A form field that was not submitted (request.form.get gives None).
None == "None"

Usernames == {"alice", "bob"}

Passwords == {"pw12345", "wrong"}

\* Values the role field of the register / login form may carry: the two
\* roles of the dropdown, any other string, or no field at all.
RoleInputs == {"creator", "consumer", "admin", None}

\* Photo ids a request may name: every possible row id and one beyond.
PhotoIds == 1..(MaxPhotos + 1)

Methods == {"GET", "POST"}

(* ------------------------------- state -------------------------------- *)

VARIABLES
    users,      \* User table: sequence of rows, the row id is the index
    photos,     \* Photo table: sequence of rows, the row id is the index
    likes,      \* Like table: set of rows [id, user_id, photo_id]
    saves,      \* Save table: set of rows [id, user_id, photo_id]
    comments,   \* Comment table: sequence of rows [user_id, photo_id, text]
    blobs,      \* object store / upload directory: the names stored
    session,    \* session[c]: id of the user client c is logged in as, 0 if none
    inflight,   \* inflight[c]: the toggle request of c between read and write
    analyzed,   \* argument and result of the last analyze_image call
    dbBackend,  \* "sqlite" or "postgres", fixed at start-up
    storage,    \* "azure", "local" or "none", fixed at start-up
    resp        \* the response to the last completed request

vars == <<users, photos, likes, saves, comments, blobs, session, inflight,
          analyzed, dbBackend, storage, resp>>

tables == <<users, photos, likes, saves, comments>>

(* ------------------------------ responses ----------------------------- *)

\* A response: the route, the HTTP status, the boolean of a JSON body
\* (liked / saved / success), the error / message / flash text, the like
\* count (-1 when absent), the redirect or template, the sentiment label.
Response(route, code, flag, msg, count, target, sentiment) ==
    [route |-> route, code |-> code, flag |-> flag, msg |-> msg,
     count |-> count, target |-> target, sentiment |-> sentiment]

\* login_required with login_view = 'login': an anonymous client is sent
\* to the login page.
Unauthorized(route) == Response(route, 302, FALSE, "Please log in", -1, "login", "")

NotFound(route) == Response(route, 404, FALSE, "", -1, "", "")

ServerError(route) == Response(route, 500, FALSE, "", -1, "", "")

Idle == [pc |-> "idle", kind |-> "", user_id |-> 0, photo_id |-> 0, existing |-> 0]

\* No analyze_image call yet.
NotAnalyzedYet ==
    [called |-> FALSE,
     img |-> [opens |-> FALSE, loads |-> FALSE, mode |-> "", width |-> 0, height |-> 0,
              brightness |-> 0, r |-> 0, g |-> 0, b |-> 0],
     result |-> <<>>]

(* ------------------------------ start-up ------------------------------ *)

\* db_uri: the configured database, or the SQLite fallback.
DbBackends == {"sqlite", "postgres"}

\* blob_service_client and AZURE_CONTAINER_NAME set: "azure"; else
\* LOCAL_UPLOADS set: "local"; else "none".
StorageBackends == {"azure", "local", "none"}

Init ==
    /\ users = <<>>
    /\ photos = <<>>
    /\ likes = {}
    /\ saves = {}
    /\ comments = <<>>
    /\ blobs = {}
    /\ session = [c \in Clients |-> 0]
    /\ inflight = [c \in Clients |-> Idle]
    /\ analyzed = NotAnalyzedYet
    /\ dbBackend \in DbBackends
    /\ storage \in StorageBackends
    /\ resp = Response("", 0, FALSE, "", -1, "", "")

(* ------------------------------ sessions ------------------------------ *)

\* current_user.is_authenticated
IsAuthenticated(c) == session[c] # 0

\* current_user.role (of an authenticated client)
CurrentRole(c) == users[session[c]].role

\* werkzeug generate_password_hash / check_password_hash: the hash of a
\* password matches that password and no other.
generate_password_hash(password) == <<"hash", password>>

check_password_hash(hash, password) == hash = generate_password_hash(password)

\* User.query.filter_by(username=username).first(): the row id, 0 if none.
UserByName(username) ==
    IF \E i \in 1..Len(users) : users[i].username = username
    THEN CHOOSE i \in 1..Len(users) :
            /\ users[i].username = username
            /\ \A j \in 1..Len(users) : users[j].username = username => i <= j
    ELSE 0

(* ------------------------------ register ------------------------------ *)

\* request.form.get('role', 'consumer')
RegisterRole(roleField) == IF roleField = None THEN "consumer" ELSE roleField

register(c, method, username, password, roleField) ==
    /\ inflight[c].pc = "idle"
    /\ IF IsAuthenticated(c)
       THEN /\ resp' = Response("register", 302, FALSE, "", -1, "feed", "")
            /\ UNCHANGED users
       ELSE IF method = "POST"
       THEN IF UserByName(username) # 0
            THEN /\ resp' = Response("register", 302, FALSE, "Username taken", -1, "register", "")
                 /\ UNCHANGED users
            ELSE /\ users' = Append(users, [username |-> username,
                                            password |-> generate_password_hash(password),
                                            role |-> RegisterRole(roleField)])
                 /\ resp' = Response("register", 302, TRUE, "Account created", -1, "login", "")
       ELSE /\ resp' = Response("register", 200, FALSE, "", -1, "register.html", "")
            /\ UNCHANGED users
    /\ UNCHANGED <<photos, likes, saves, comments, blobs, session, inflight,
                   analyzed, dbBackend, storage>>

(* -------------------------------- login ------------------------------- *)

\* The page a successful login redirects to.
LoginTarget(role) == IF role = "creator" THEN "creator_dashboard" ELSE "feed"

\* A login that does not compare the roles.
RoleMatches_Mutant(stored, submitted) == TRUE

\* The role check of login: the submitted role against the stored one.
RoleMatches(stored, submitted) == stored = submitted

login(c, method, username, password, roleField) ==
    /\ inflight[c].pc = "idle"
    /\ LET uid == UserByName(username) IN
       IF IsAuthenticated(c)
       THEN /\ resp' = Response("login", 302, FALSE, "", -1, "feed", "")
            /\ UNCHANGED session
       ELSE IF method = "POST"
       THEN IF uid # 0 /\ check_password_hash(users[uid].password, password)
            THEN IF RoleMatches(users[uid].role, roleField)
                 THEN /\ session' = [session EXCEPT ![c] = uid]
                      /\ resp' = Response("login", 302, TRUE, "", -1,
                                          LoginTarget(users[uid].role), "")
                 ELSE /\ resp' = Response("login", 200, FALSE, "Incorrect Role!", -1,
                                          "login.html", "")
                      /\ UNCHANGED session
            ELSE /\ resp' = Response("login", 200, FALSE, "Invalid credentials", -1,
                                     "login.html", "")
                 /\ UNCHANGED session
       ELSE /\ resp' = Response("login", 200, FALSE, "", -1, "login.html", "")
            /\ UNCHANGED session
    /\ UNCHANGED <<users, photos, likes, saves, comments, blobs, inflight,
                   analyzed, dbBackend, storage>>

(* ------------------------------- logout ------------------------------- *)

logout(c) ==
    /\ inflight[c].pc = "idle"
    /\ IF IsAuthenticated(c)
       THEN /\ session' = [session EXCEPT ![c] = 0]
            /\ resp' = Response("logout", 302, TRUE, "", -1, "login", "")
       ELSE /\ resp' = Unauthorized("logout")
            /\ UNCHANGED session
    /\ UNCHANGED <<users, photos, likes, saves, comments, blobs, inflight,
                   analyzed, dbBackend, storage>>

(* ---------------------------- image tagger ---------------------------- *)

\* A decoded upload: size, mode, mean luminance of the 'L' conversion,
\* the pixel of the 1x1 resize, whether Image.open accepts the file and
\* whether its pixel data can be loaded.
Image(w, h, mode, brightness, rgb, opens, loads) ==
    [width |-> w, height |-> h, mode |-> mode, brightness |-> brightness,
     r |-> rgb[1], g |-> rgb[2], b |-> rgb[3], opens |-> opens, loads |-> loads]

Sizes == {<<1000, 1000>>, <<1001, 1000>>, <<2000, 2000>>, <<4000, 1000>>}

Brightnesses == {79, 80, 150, 151, 255}

Colours == {<<255, 255, 255>>, <<200, 100, 100>>, <<100, 100, 200>>, <<100, 200, 100>>}

\* The 2000x2000 all-white upload.
WhiteImage == Image(2000, 2000, "RGB", 255, <<255, 255, 255>>, TRUE, TRUE)

\* An image file whose header reads and whose pixel data is truncated.
TruncatedImage == Image(1000, 1000, "RGB", 0, <<0, 0, 0>>, TRUE, FALSE)

\* Files that are no image, or whose pixel data is truncated.
BrokenImages ==
    { Image(1000, 1000, "RGB", 0, <<0, 0, 0>>, FALSE, FALSE),
      TruncatedImage,
      Image(1000, 1000, "L", 0, <<0, 0, 0>>, TRUE, FALSE) }

\* Uploads: the white image varied along one axis at a time.
Images ==
    { Image(s[1], s[2], "RGB", 255, <<255, 255, 255>>, TRUE, TRUE) : s \in Sizes }
    \cup { Image(2000, 2000, "RGB", br, <<255, 255, 255>>, TRUE, TRUE) : br \in Brightnesses }
    \cup { Image(2000, 2000, "RGB", 255, col, TRUE, TRUE) : col \in Colours }
    \cup { Image(4000, 1000, "L", 80, <<100, 100, 200>>, TRUE, TRUE) }
    \cup BrokenImages

\* The value of request.files.get('photo') when no file was chosen.
NoFile == [opens |-> FALSE, loads |-> FALSE, mode |-> "", width |-> 0, height |-> 0,
           brightness |-> 0, r |-> 0, g |-> 0, b |-> 0]

NotAnalyzed == <<"Not Analyzed">>

\* img_obj.convert('RGB')
ConvertRGB(img) == [img EXCEPT !.mode = "RGB"]

QualityTag(img) == IF img.width * img.height > 1000000 THEN "HD" ELSE "SD"

BrightnessTag(img) ==
    IF img.brightness > 150 THEN "Bright"
    ELSE IF img.brightness < 80 THEN "Dark"
    ELSE "Neutral Lighting"

ColorTag(img) ==
    IF img.r > img.g /\ img.r > img.b THEN "Warm Tone"
    ELSE IF img.b > img.r /\ img.b > img.g THEN "Cool Tone"
    ELSE "Balanced Color"

\* The tags in order (" | ".join keeps them apart), or the sentinel when a
\* step raised: any access to pixel data of an image that does not load.
analyze_image(img_obj) ==
    IF ~img_obj.loads THEN NotAnalyzed
    ELSE LET img == IF img_obj.mode # "RGB" THEN ConvertRGB(img_obj) ELSE img_obj
         IN  <<QualityTag(img), BrightnessTag(img), ColorTag(img)>>

(* ------------------------------ thumbnail ----------------------------- *)

Abs(x) == IF x < 0 THEN -x ELSE x

\* Pillow's round_aspect over n = floor and ceil of num/den: the one whose
\* ratio is nearest the image's aspect (the floor on a tie), at least 1.
\* key(n) is compared cross-multiplied: |long*n - box*short| / n.
RoundAspect(long, short, box) ==
    LET f == (box * short) \div long
        c == IF f * long = box * short THEN f ELSE f + 1
        kf == Abs(long * f - box * short)
        kc == Abs(long * c - box * short)
        n == IF f = 0 \/ kf * c <= kc * f THEN f ELSE c
    IN  IF n < 1 THEN 1 ELSE n

\* img.thumbnail((box, box)): unchanged when it fits, else scaled down
\* keeping the aspect ratio.
Thumbnail(img, box) ==
    IF box >= img.width /\ box >= img.height THEN img
    ELSE IF img.width <= img.height
    THEN [img EXCEPT !.width = RoundAspect(img.height, img.width, box), !.height = box]
    ELSE [img EXCEPT !.width = box, !.height = RoundAspect(img.width, img.height, box)]


(* ------------------------------- upload ------------------------------- *)

Timestamps == 1..MaxClock

Titles == {"Snow", ""}

\* f"{timestamp}_{secure_filename(file.filename)}"
BlobName(ts) == <<ts, "photo.jpg">>

\* upload_blob(..., overwrite=True) / img.save(local_path): the object
\* stored under a name replaces the one that was there.
PutBlob(store, name, img) ==
    {o \in store : o.name # name}
        \cup {[name |-> name, width |-> img.width, height |-> img.height]}

\* An upload that tags the image after downscaling it.
ImageToAnalyze_Mutant(img) == Thumbnail(img, 1080)

\* The image analyze_image is given by the upload handler: the opened
\* image, before img.thumbnail.
ImageToAnalyze(img) == img

UploadError == Response("upload", 200, FALSE, "Upload Error", -1, "dashboard.html", "")

\* The POST branch of creator_dashboard for a creator: the new Photo table,
\* object store, analyze_image record and response.  storeOk / commitOk say
\* whether the storage call / db.session.commit() go through or raise.
Upload(uid, file, title, ts, storeOk, commitOk) ==
    LET same == [photos |-> photos, blobs |-> blobs, analyzed |-> analyzed]
        img == IF file.mode # "RGB" THEN ConvertRGB(file) ELSE file
        call == [called |-> TRUE, img |-> ImageToAnalyze(img),
                 result |-> analyze_image(ImageToAnalyze(img))]
        thumb == Thumbnail(img, 1080)
        stored == PutBlob(blobs, BlobName(ts), thumb)
        row == [filename |-> BlobName(ts), title |-> title,
                auto_tags |-> call.result, user_id |-> uid]
    IN
    IF file = NoFile \/ title = ""
    THEN same @@ [resp |-> Response("upload", 200, FALSE, "", -1, "dashboard.html", "")]
    ELSE IF ~file.opens \/ (file.mode # "RGB" /\ ~file.loads)
    THEN same @@ [resp |-> UploadError]
    ELSE IF ~file.loads
    THEN [photos |-> photos, blobs |-> blobs, analyzed |-> call, resp |-> UploadError]
    ELSE IF storage = "none"
    THEN [photos |-> photos, blobs |-> blobs, analyzed |-> call,
          resp |-> Response("upload", 200, FALSE, "Uploads are disabled", -1,
                            "dashboard.html", "")]
    ELSE IF ~storeOk
    THEN [photos |-> photos, blobs |-> blobs, analyzed |-> call, resp |-> UploadError]
    ELSE IF ~commitOk
    THEN [photos |-> photos, blobs |-> stored, analyzed |-> call, resp |-> UploadError]
    ELSE [photos |-> Append(photos, row), blobs |-> stored, analyzed |-> call,
          resp |-> Response("upload", 302, TRUE, "Photo Uploaded successfully!", -1,
                            "profile", "")]

\* An upload page that turns away consumers only.
MayUpload_Mutant(role) == role # "consumer"

\* The role gate of the upload page.
MayUpload(role) == role = "creator"

creator_dashboard(c, method, file, title, ts, storeOk, commitOk) ==
    /\ inflight[c].pc = "idle"
    /\ IF ~IsAuthenticated(c)
       THEN /\ resp' = Unauthorized("upload")
            /\ UNCHANGED <<photos, blobs, analyzed>>
       ELSE IF ~MayUpload(CurrentRole(c))
       THEN /\ resp' = Response("upload", 302, FALSE, "Only Creators can upload photos.",
                                -1, "feed", "")
            /\ UNCHANGED <<photos, blobs, analyzed>>
       ELSE IF method = "POST"
       THEN LET out == Upload(session[c], file, title, ts, storeOk, commitOk) IN
            /\ Len(out.photos) <= MaxPhotos
            /\ photos' = out.photos
            /\ blobs' = out.blobs
            /\ analyzed' = out.analyzed
            /\ resp' = out.resp
       ELSE /\ resp' = Response("upload", 200, FALSE, "", -1, "dashboard.html", "")
            /\ UNCHANGED <<photos, blobs, analyzed>>
    /\ UNCHANGED <<users, likes, saves, comments, session, inflight, dbBackend, storage>>

(* ---------------------------- like / save ----------------------------- *)

Kinds == {"like", "save"}

\* The Like / Save model declares no uniqueness constraint on
\* (user_id, photo_id).
UniquePairConstraint == FALSE

Table(kind) == IF kind = "like" THEN likes ELSE saves

Matching(tbl, uid, pid) == {r \in tbl : r.user_id = uid /\ r.photo_id = pid}

\* Query.filter_by(user_id=..., photo_id=...).first(): the id of the row
\* found (the one with the least id), 0 if there is none.
First(tbl, uid, pid) ==
    IF Matching(tbl, uid, pid) = {} THEN 0
    ELSE LET r == CHOOSE x \in Matching(tbl, uid, pid) :
                      \A y \in Matching(tbl, uid, pid) : x.id <= y.id
         IN r.id

\* The primary key the database gives a new row.
NextId(tbl) ==
    IF tbl = {} THEN 1
    ELSE LET r == CHOOSE x \in tbl : \A y \in tbl : x.id >= y.id IN r.id + 1

\* photo.likes.count()
LikeCount(tbl, pid) == Cardinality({r \in tbl : r.photo_id = pid})

\* Photo.query.get_or_404(photo_id) finds a row.
PhotoExists(pid) == pid \in 1..Len(photos)

\* A role gate that bars nobody.
Barred_Mutant(role) == FALSE

\* The role gate of like, save and comment.
Barred(role) == role = "creator"

\* The branch on the row looked up: delete it, or add a new one.
ToggleBranch(existing) == existing # 0

\* The write half of a toggle on table tbl, given the row id the read half
\* found: the table after the commit, whether the commit went through, and
\* the liked / saved flag.
ToggleCommit(tbl, existing, uid, pid) ==
    IF ToggleBranch(existing)
    THEN [table |-> {r \in tbl : r.id # existing}, ok |-> TRUE, flag |-> FALSE]
    ELSE IF UniquePairConstraint /\ Matching(tbl, uid, pid) # {}
    THEN [table |-> tbl, ok |-> FALSE, flag |-> FALSE]
    ELSE [table |-> tbl \cup {[id |-> NextId(tbl), user_id |-> uid, photo_id |-> pid]},
          ok |-> TRUE, flag |-> TRUE]

\* The JSON body of a completed toggle.
ToggleResponse(kind, out, pid) ==
    IF ~out.ok THEN ServerError(kind)
    ELSE Response(kind, 200, out.flag, "",
                  IF kind = "like" THEN LikeCount(out.table, pid) ELSE -1, "", "")

\* toggle_like / toggle_save up to and including the lookup of the row.
ToggleRead(c, kind, pid) ==
    /\ inflight[c].pc = "idle"
    /\ IF ~IsAuthenticated(c)
       THEN /\ resp' = Unauthorized(kind)
            /\ UNCHANGED inflight
       ELSE IF Barred(CurrentRole(c))
       THEN /\ resp' = Response(kind, 200, FALSE,
                                IF kind = "like" THEN "Creators cannot like"
                                                 ELSE "Creators cannot save", -1, "", "")
            /\ UNCHANGED inflight
       ELSE IF ~PhotoExists(pid)
       THEN /\ resp' = NotFound(kind)
            /\ UNCHANGED inflight
       ELSE /\ inflight' = [inflight EXCEPT ![c] =
                               [pc |-> "read", kind |-> kind, user_id |-> session[c],
                                photo_id |-> pid,
                                existing |-> First(Table(kind), session[c], pid)]]
            /\ UNCHANGED resp
    /\ UNCHANGED <<users, photos, likes, saves, comments, blobs, session, analyzed,
                   dbBackend, storage>>

\* toggle_like / toggle_save from the delete / add to the response.
ToggleWrite(c) ==
    /\ inflight[c].pc = "read"
    /\ LET q == inflight[c]
           out == ToggleCommit(Table(q.kind), q.existing, q.user_id, q.photo_id)
       IN  /\ IF q.kind = "like"
              THEN likes' = out.table /\ UNCHANGED saves
              ELSE saves' = out.table /\ UNCHANGED likes
           /\ resp' = ToggleResponse(q.kind, out, q.photo_id)
    /\ inflight' = [inflight EXCEPT ![c] = Idle]
    /\ UNCHANGED <<users, photos, comments, blobs, session, analyzed, dbBackend, storage>>

(* ------------------------------ comments ------------------------------ *)

\* Polarity scores TextBlob may give a text, in hundredths.
Scores == {-100, -31, -30, -1, 0, 30, 31, 100}

Markers == {"[AI: Positive]", "[AI: Negative]", "[AI: Neutral]"}

\* Comment texts as token sequences: empty, plain, and one that already
\* carries a marker typed by the user.
Texts == {<<>>, <<"nice">>, <<"so", "[AI: Positive]">>}

\* A moderator that also blocks a score of exactly -0.3.
Blocked_Mutant(score) == score <= -30

\* if score < -0.3: blocked
Blocked(score) == score < -30

Sentiment(score) ==
    IF score > 30 THEN "positive"
    ELSE IF score < 0 THEN "negative"
    ELSE "neutral"

Marker(score) ==
    IF score > 30 THEN "[AI: Positive]"
    ELSE IF score < 0 THEN "[AI: Negative]"
    ELSE "[AI: Neutral]"

\* text += " [AI: ...]"
Annotate(text, score) == text \o <<Marker(score)>>

\* Whether the database enforces Comment.photo_id as a foreign key: SQLite
\* does not unless told to per connection, PostgreSQL does.
ForeignKeysEnforced == dbBackend = "postgres"

\* Whether add_comment may insert a row naming photo pid.
CommentTargetOk(pid) == ForeignKeysEnforced => PhotoExists(pid)

add_comment(c, pid, text, score) ==
    /\ inflight[c].pc = "idle"
    /\ IF ~IsAuthenticated(c)
       THEN /\ resp' = Unauthorized("comment")
            /\ UNCHANGED comments
       ELSE IF Barred(CurrentRole(c))
       THEN /\ resp' = Response("comment", 200, FALSE, "Creators cannot comment", -1, "", "")
            /\ UNCHANGED comments
       ELSE IF text = <<>>
       THEN /\ resp' = Response("comment", 200, FALSE, "Empty comment", -1, "", "")
            /\ UNCHANGED comments
       ELSE IF Blocked(score)
       THEN /\ resp' = Response("comment", 200, FALSE, "Blocked: Negative content", -1, "", "")
            /\ UNCHANGED comments
       ELSE IF ~CommentTargetOk(pid)
       THEN /\ resp' = ServerError("comment")
            /\ UNCHANGED comments
       ELSE /\ Len(comments) < MaxComments
            /\ comments' = Append(comments, [text |-> Annotate(text, score),
                                             user_id |-> session[c], photo_id |-> pid])
            /\ resp' = Response("comment", 200, TRUE, "", -1, "", Sentiment(score))
    /\ UNCHANGED <<users, photos, likes, saves, blobs, session, inflight, analyzed,
                   dbBackend, storage>>

(* --------------------------- specifications --------------------------- *)

Register(C, Names) ==
    \E c \in C, m \in Methods, u \in Names, r \in RoleInputs :
        register(c, m, u, "pw12345", r)

Login(C, Names) ==
    \E c \in C, m \in Methods, u \in Names, p \in Passwords, r \in RoleInputs :
        login(c, m, u, p, r)

Logout(C) == \E c \in C : logout(c)

\* Upload requests of clients C with files Files, at times Times, where
\* the storage call and the commit go through as Oks allows.
Uploads(C, Files, Times, Oks) ==
    \E c \in C, m \in Methods, f \in Files, t \in Titles, ts \in Times,
       so \in Oks, co \in Oks :
        creator_dashboard(c, m, f, t, ts, so, co)

ToggleStart(C) == \E c \in C, k \in Kinds, pid \in PhotoIds : ToggleRead(c, k, pid)

ToggleFinish(C) == \E c \in C : ToggleWrite(c)

Comment(C) ==
    \E c \in C, pid \in PhotoIds, t \in Texts, sc \in Scores :
        add_comment(c, pid, t, sc)

\* Likes, saves and comments of users who register, log in and out on one
\* client, on photos a creator uploads.  The storage backend plays no part
\* here and is the local directory; uploads are of the white image and do
\* not fail.
Next ==
    \/ Register({1}, Usernames)
    \/ Login({1}, Usernames)
    \/ Logout({1})
    \/ Uploads({1}, {WhiteImage}, {1}, {TRUE})
    \/ ToggleStart({1})
    \/ ToggleFinish({1})
    \/ Comment({1})

\* A deployment that stores uploads in the local directory.
InitLocal == Init /\ storage = "local"

Spec == InitLocal /\ [][Next]_vars

\* Concurrent like / save toggles: users log in and out of several
\* clients, whose requests interleave.
NextToggle ==
    \/ Register(Clients, Usernames)
    \/ Login(Clients, Usernames)
    \/ Logout(Clients)
    \/ Uploads(Clients, {WhiteImage}, {1}, {TRUE})
    \/ ToggleStart(Clients)
    \/ ToggleFinish(Clients)

\* The default deployment: local directory and the SQLite fallback.
InitDefault == Init /\ storage = "local" /\ dbBackend = "sqlite"

SpecToggle == InitDefault /\ [][NextToggle]_vars

\* Accounts and uploads from one client, under every storage backend and
\* with storage and database failures.
NextUpload ==
    \/ Register({1}, Usernames)
    \/ Login({1}, Usernames)
    \/ Logout({1})
    \/ Uploads({1}, {WhiteImage, TruncatedImage, NoFile}, Timestamps, BOOLEAN)

\* A deployment on the SQLite fallback, with any storage backend.
InitSqlite == Init /\ dbBackend = "sqlite"

SpecUpload == InitSqlite /\ [][NextUpload]_vars

\* The image tagger on every image, through the uploads of one account.
NextTagger ==
    \/ Register({1}, {"alice"})
    \/ Login({1}, {"alice"})
    \/ Uploads({1}, Images, {1}, {TRUE})

SpecTagger == InitDefault /\ [][NextTagger]_vars

\* Accounts and sessions only: register, log in and log out on every client.
NextLogin ==
    \/ Register(Clients, Usernames)
    \/ Login(Clients, Usernames)
    \/ Logout(Clients)

SpecLogin == InitDefault /\ [][NextLogin]_vars

(* ------------------------------- claims ------------------------------- *)

RowCount(tbl, uid, pid) == Cardinality(Matching(tbl, uid, pid))

UserIds == 1..Len(users)

\* C1: in every reachable state, toggles of one user on one photo
\* interleaved between read and write included, a (user, photo) pair
\* appears at most once in the Like table and at most once in the Save
\* table.
C1_PairAtMostOnce ==
    \A uid \in UserIds, pid \in PhotoIds :
        /\ RowCount(likes, uid, pid) <= 1
        /\ RowCount(saves, uid, pid) <= 1

\* Two toggle calls one after the other, nothing in between, by user uid on
\* photo pid, from table tbl.
TwoToggles(kind, tbl, uid, pid) ==
    LET o1 == ToggleCommit(tbl, First(tbl, uid, pid), uid, pid)
        o2 == ToggleCommit(o1.table, First(o1.table, uid, pid), uid, pid)
    IN  [was |-> Matching(tbl, uid, pid) # {},
         mid |-> o1.table, end |-> o2.table,
         r1 |-> ToggleResponse(kind, o1, pid), r2 |-> ToggleResponse(kind, o2, pid)]

\* C2: from any state, for a non-creator user and an existing photo, two
\* consecutive toggle_like (toggle_save) calls give back the original rows
\* and like count; the first call reports the negation of the original
\* state and the second the original state; the count each like call
\* returns is the number of Like rows of the photo after that call.
C2_ToggleTwiceRestores ==
    \A kind \in Kinds, uid \in UserIds, pid \in 1..Len(photos) :
        users[uid].role # "creator" =>
            LET t == TwoToggles(kind, Table(kind), uid, pid) IN
            /\ \A u \in UserIds, p \in PhotoIds :
                   RowCount(t.end, u, p) = RowCount(Table(kind), u, p)
            /\ t.r1.flag = ~t.was
            /\ t.r2.flag = t.was
            /\ kind = "like" =>
                   /\ t.r1.count = LikeCount(t.mid, pid)
                   /\ t.r2.count = LikeCount(t.end, pid)
                   /\ t.r2.count = LikeCount(likes, pid)

IsRejection(r) == r.code = 200 /\ r.flag = FALSE /\ r.msg # ""

\* Some like / save request of client c is this step.
C3_IsToggleStep(c) == \E kind \in Kinds, pid \in PhotoIds : ToggleRead(c, kind, pid)

\* Some comment request of client c is this step.
C3_IsCommentStep(c) ==
    \E pid \in PhotoIds, t \in Texts, sc \in Scores : add_comment(c, pid, t, sc)

\* C3: when the logged-in user's role is "creator", a like, save or
\* comment request on any photo id, existing or not, is answered with a
\* rejection (flag false, with a message) and the Like, Save and Comment
\* tables stay as they are; no toggle is left pending either.  (Every
\* step of a creator's client either is such a rejection or is no like,
\* save or comment request of that client.)
C3_CreatorRejected ==
    [][\A c \in Clients :
          (IsAuthenticated(c) /\ CurrentRole(c) = "creator") =>
              \/ /\ IsRejection(resp')
                 /\ resp'.route \in Kinds \cup {"comment"}
                 /\ UNCHANGED <<likes, saves, comments, inflight>>
              \/ ~(C3_IsToggleStep(c) \/ C3_IsCommentStep(c))]_vars

\* A creator was refused a like on an existing photo that others had liked.
C3_Witness ==
    /\ resp.msg = "Creators cannot like"
    /\ photos # <<>>
    /\ likes # {}

\* C4: every Like, Save and Comment row was created by a user whose role
\* was "consumer" (roles never change after registration, so the role of
\* the row's user is the role at creation).
C4_AuthorsAreConsumers ==
    /\ \A r \in likes \cup saves : users[r.user_id].role = "consumer"
    /\ \A i \in 1..Len(comments) : users[comments[i].user_id].role = "consumer"

\* The category the claim gives a score.
C5_Category(sc) ==
    IF sc > 30 THEN "positive"
    ELSE IF -30 <= sc /\ sc < 0 THEN "negative"
    ELSE "neutral"

C5_MarkerOf(category) ==
    IF category = "positive" THEN "[AI: Positive]"
    ELSE IF category = "negative" THEN "[AI: Negative]"
    ELSE "[AI: Neutral]"

\* C5: a non-empty comment of a non-creator is rejected by the moderator
\* exactly when its score is below -0.3; a rejected or empty comment adds
\* no Comment row; an accepted comment is stored as the submitted text with
\* exactly one marker appended, the one of its category (Positive above
\* 0.3, Negative from -0.3 up to but not including 0, Neutral otherwise),
\* and the response carries that category.  A comment that is not rejected
\* is accepted, unless the database refuses the row (a photo id without a
\* Photo row, under enforced foreign keys).  Every response of add_comment
\* is of route "comment".
C5_Moderation ==
    [][\A c \in Clients, pid \in PhotoIds, t \in Texts, sc \in Scores :
          (resp'.route = "comment" /\ IsAuthenticated(c) /\ CurrentRole(c) # "creator"
              /\ add_comment(c, pid, t, sc)) =>
              IF t = <<>>
              THEN IsRejection(resp') /\ comments' = comments
              ELSE /\ (resp'.msg = "Blocked: Negative content") <=> (sc < -30)
                   /\ sc < -30 => (IsRejection(resp') /\ comments' = comments)
                   /\ sc >= -30 =>
                         \/ /\ resp'.code = 200
                            /\ resp'.flag = TRUE
                            /\ resp'.sentiment = C5_Category(sc)
                            /\ comments' = Append(comments,
                                   [text |-> t \o <<C5_MarkerOf(C5_Category(sc))>>,
                                    user_id |-> session[c], photo_id |-> pid])
                         \/ /\ resp'.code = 500
                            /\ comments' = comments
                            /\ ~PhotoExists(pid)
                            /\ dbBackend = "postgres"]_vars

\* A comment scored in [-0.3, 0) was accepted and stored with the Negative
\* marker.
C5_Witness ==
    /\ resp.route = "comment"
    /\ resp.flag = TRUE
    /\ resp.sentiment = "negative"
    /\ comments # <<>>
    /\ comments[Len(comments)].text[Len(comments[Len(comments)].text)] = "[AI: Negative]"

\* C6: an upload POST of a creator with a file and a title ends either
\* with the image stored in the selected backend and exactly one new Photo
\* row referencing it, or with a reported error, no new Photo row and no
\* object stored by the request.
C6_UploadAllOrNothing ==
    [][\A c \in Clients, f \in Images, ts \in Timestamps, so \in BOOLEAN, co \in BOOLEAN :
          (resp'.route = "upload" /\ IsAuthenticated(c) /\ CurrentRole(c) = "creator"
              /\ creator_dashboard(c, "POST", f, "Snow", ts, so, co)) =>
              \/ /\ resp'.flag = TRUE
                 /\ storage # "none"
                 /\ Len(photos') = Len(photos) + 1
                 /\ SubSeq(photos', 1, Len(photos)) = photos
                 /\ \E o \in blobs' : o.name = photos'[Len(photos')].filename
              \/ /\ resp'.flag = FALSE
                 /\ resp'.msg # ""
                 /\ photos' = photos
                 /\ blobs' = blobs]_vars

\* Whether the credentials and the role submitted are those of user uid.
C7_Valid(uid, username, password, roleField) ==
    /\ uid \in UserIds
    /\ users[uid].username = username
    /\ users[uid].password = <<"hash", password>>
    /\ users[uid].role = roleField

\* What the claim says of a login POST of client c.
C7_LoginOutcome(c, username, password, roleField) ==
    IF \E uid \in UserIds : C7_Valid(uid, username, password, roleField)
    THEN LET uid == CHOOSE u \in UserIds : C7_Valid(u, username, password, roleField) IN
         /\ session'[c] = uid
         /\ resp'.flag = TRUE
         /\ resp'.code = 302
         /\ resp'.target = IF users[uid].role = "creator" THEN "creator_dashboard" ELSE "feed"
    ELSE /\ session'[c] = 0
         /\ resp'.flag = FALSE
         /\ resp'.msg \in {"Incorrect Role!", "Invalid credentials"}

C8_Classes(img) ==
    << IF img.width * img.height > 1000000 THEN "HD" ELSE "SD",
       IF img.brightness > 150 THEN "Bright"
       ELSE IF img.brightness < 80 THEN "Dark" ELSE "Neutral Lighting",
       IF img.r > img.g /\ img.r > img.b THEN "Warm Tone"
       ELSE IF img.b > img.r /\ img.b > img.g THEN "Cool Tone" ELSE "Balanced Color" >>

\* C8: analyze_image returns the sentinel (when a step raises) or the three
\* classes of the image: HD iff width*height > 1,000,000, else SD; Bright
\* iff mean luminance > 150, Dark iff < 80, else Neutral; Warm iff red is
\* strictly greatest, Cool iff blue is, else Balanced.  On upload the tag is
\* that of the image as submitted, before the downscale to 1080px, and it
\* is the tag stored in the Photo row: the 2000x2000 white upload is tagged
\* HD and Bright.
C8_TagOfSubmittedImage ==
    [][\A c \in Clients, f \in Images, ts \in Timestamps :
          (resp'.route = "upload" /\ IsAuthenticated(c) /\ CurrentRole(c) = "creator"
              /\ f.opens /\ (f.mode = "RGB" \/ f.loads)
              /\ creator_dashboard(c, "POST", f, "Snow", ts, TRUE, TRUE)) =>
              /\ analyzed'.called
              /\ analyzed'.img.width = f.width /\ analyzed'.img.height = f.height
              /\ analyzed'.result = IF f.loads THEN C8_Classes(f) ELSE <<"Not Analyzed">>
              /\ photos' # photos =>
                     /\ photos'[Len(photos')].auto_tags = C8_Classes(f)
                     /\ f = WhiteImage =>
                            /\ photos'[Len(photos')].auto_tags[1] = "HD"
                            /\ photos'[Len(photos')].auto_tags[2] = "Bright"]_vars

\* A 4000x1000 upload is tagged HD although the stored object, downscaled
\* to 1080x270, would be SD.
C8_Witness ==
    /\ photos # <<>>
    /\ photos[1].auto_tags[1] = "HD"
    /\ \E o \in blobs : o.name = photos[1].filename /\ o.width * o.height <= 1000000

\* Some upload request of client c, GET or POST, is this step.
C9_IsUploadStep(c) ==
    \E m \in Methods, f \in Images \cup {NoFile}, t \in Titles, ts \in Timestamps,
       so \in BOOLEAN, co \in BOOLEAN : creator_dashboard(c, m, f, t, ts, so, co)

\* C9: every Photo row is owned by a user whose role was "creator" when
\* the row was created (the rows of the User table never change), and an
\* upload request, GET or POST, of a logged-in user of any other role is
\* rejected with the warning, adds no Photo row and stores no image.
C9_OnlyCreatorsUpload ==
    [][/\ \A i \in 1..Len(photos') : users'[photos'[i].user_id].role = "creator"
       /\ \A i \in 1..Len(users) : users'[i] = users[i]
       /\ \A c \in Clients :
             (resp'.route = "upload" /\ IsAuthenticated(c) /\ CurrentRole(c) # "creator") =>
                 \/ /\ resp'.msg = "Only Creators can upload photos."
                    /\ resp'.flag = FALSE
                    /\ photos' = photos
                    /\ blobs' = blobs
                 \/ ~C9_IsUploadStep(c)]_vars

\* A user who is no creator was refused the upload page while a creator's
\* photo exists.
C9_Witness ==
    /\ resp.msg = "Only Creators can upload photos."
    /\ photos # <<>>
    /\ \E c \in Clients : IsAuthenticated(c) /\ CurrentRole(c) # "creator"

\* C10: every Like, Save and Comment row references a Photo row that
\* exists.
C10_RowsReferencePhotos ==
    /\ \A r \in likes \cup saves : PhotoExists(r.photo_id)
    /\ \A i \in 1..Len(comments) : PhotoExists(comments[i].photo_id)

=============================================================================
